---- MODULE Spec2Model ----
(***************************************************************************)
(* A model of facet-hashmap: the type-erased storage cell (erased.rs), the *)
(* erased hash table (erased_hashmap.rs) and the typed facade              *)
(* (facet_hashmap.rs).                                                     *)
(***************************************************************************)
EXTENDS Integers, Sequences, FiniteSets, TLC

\* ---------------------------------------------------------------- bounds
MaxOps == 2        \* facade insert calls made on one map
MaxKey == 1        \* key payloads are 0..MaxKey
MaxVal == 1        \* value payloads are 0..MaxVal

\* ------------------------------------------------------ program constants
WordSize == 8      \* size_of::<InlineStorage>()
WordAlign == 8     \* align_of::<InlineStorage>()

\* layouts of the descriptors the facade is instantiated with
Sizes == {0, 8, 16}
Aligns == {8, 16}

\* facet::Shape as consumed here: a sized layout and an optional drop_in_place
Shape == {s \in [size : Sizes, align : Aligns, drop : BOOLEAN] : s.size % s.align = 0}

\* the values of a type: a zero-sized type has exactly one
KeyValues(shape) == IF shape.size = 0 THEN {0} ELSE 0..MaxKey
ValValues(shape) == IF shape.size = 0 THEN {0} ELSE 0..MaxVal

None == <<>>
Some(x) == <<x>>

\* what a read of the wrong union branch or of unwritten memory yields
Garbage == -1
\* heap memory that has been allocated and not written
NoData == -2

VARIABLES K, V, key_vtable, facade, hash_builder, heap, cells, hash_table, phase, last, res, ops

vars == <<K, V, key_vtable, facade, hash_builder, heap, cells, hash_table, phase, last, res, ops>>

\* ------------------------------------------------------------ erased.rs

ForShape_size_only(shape) ==
    IF shape.size <= WordSize THEN "Inline" ELSE "Boxed"

\* ErasedStorage::for_shape
ForShape(shape) ==
    IF shape.size <= WordSize /\ shape.align <= WordAlign THEN "Inline" ELSE "Boxed"

\* Erased::uninit: the union and the heap after the call; a Boxed cell makes
\* one std::alloc::alloc call with the shape's layout.  isNull is the outcome
\* of that call returning no usable block.
Uninit(shape, h, isNull) ==
    IF ForShape(shape) = "Inline"
    THEN [word |-> [tag |-> "uninit", v |-> 0], heap |-> h, branch |-> "Inline"]
    ELSE [word |-> [tag |-> "ptr", v |-> Len(h) + 1],
          heap |-> Append(h, [size |-> shape.size, align |-> shape.align,
                              null |-> isNull, data |-> NoData, frees |-> 0,
                              freeSize |-> 0, freeAlign |-> 0]),
          branch |-> "Boxed"]

\* ErasedUninit::as_ptr: the branch the write goes through
UninitAsPtr(shape) == ForShape(shape)

AsConstPtrAssumeInit_inline(shape) == "Inline"

\* ErasedUninit::as_const_ptr_assume_init: the branch a read goes through
AsConstPtrAssumeInit(shape) == ForShape(shape)

\* ptr.put(value) through ErasedUninit::as_ptr; a zero-sized value writes nothing
Put(u, shape, value) ==
    IF shape.size = 0 THEN u
    ELSE IF UninitAsPtr(shape) = "Inline"
         THEN [u EXCEPT !.word = [tag |-> "inline", v |-> value]]
         ELSE IF u.word.tag = "ptr"
              THEN [u EXCEPT !.heap[u.word.v].data = value]
              ELSE u

\* ptr.put(value) in Erased::new when uninit stored the null pointer of a
\* failed allocation: the write of a value of non-zero size faults
PutFaults(u, shape) ==
    /\ shape.size > 0
    /\ UninitAsPtr(shape) = "Boxed"
    /\ u.word.tag = "ptr"
    /\ u.heap[u.word.v].null

\* Erased::new
ErasedNew(shape, value, h, isNull) == Put(Uninit(shape, h, isNull), shape, value)

\* Erased::as_ptr(shape) followed by a read of the pointee
ReadWord(word, shape, h) ==
    IF shape.size = 0 THEN 0
    ELSE IF AsConstPtrAssumeInit(shape) = "Inline"
         THEN IF word.tag = "inline" THEN word.v ELSE Garbage
         ELSE IF word.tag = "ptr" /\ word.v \in DOMAIN h
                 /\ h[word.v].frees = 0 /\ h[word.v].data # NoData
              THEN h[word.v].data
              ELSE Garbage

\* Erased::into_typed
IntoTyped(word, shape, h) == ReadWord(word, shape, h)

DropFnIsSome_boxed_only(shape) == ForShape(shape) = "Boxed"

DropFnIsSome_destructor_only(shape) == shape.drop

\* Erased::drop_fn: None exactly for an inline cell without destructor
DropFnIsSome(shape) == ~(ForShape(shape) = "Inline" /\ ~shape.drop)

\* the closure Erased::drop_fn returns, applied to one cell: the destructor
\* and deallocation calls it makes, in order, and the branch it goes through
DropFnCell(c, shape) ==
    LET storage == ForShape(shape) IN
    IF storage = "Inline"
    THEN IF shape.drop
         THEN [c EXCEPT !.events = Append(@, "drop_in_place"), !.access = @ \cup {"Inline"}]
         ELSE c
    ELSE [c EXCEPT !.events = (IF shape.drop THEN Append(@, "drop_in_place") ELSE @)
                                 \o <<"dealloc">>,
                   !.access = @ \cup {"Boxed"}]

\* the layout Erased::drop_fn captures for the closure's dealloc call
DropFnLayout(shape) == [size |-> shape.size, align |-> shape.align]

\* the same closure's std::alloc::dealloc(ptr, layout) call: does it release
\* heap block a when applied to cell c
DropFnFrees(c, shape, a) ==
    ForShape(shape) = "Boxed" /\ c.word.tag = "ptr" /\ c.word.v = a

\* ------------------------------------------------------ erased_hashmap.rs

\* the descriptor's hash routine fed to a fresh hasher of the table's hash
\* builder, then finish(): a function of the key's value and of the builder,
\* which either spreads the keys over two hashes or sends them all to one
make_key_ref_hasher(keyval) == IF hash_builder THEN keyval % 2 ELSE 0

\* make_key_ref_hasher: (key_shape.vtable.hash)().unwrap() on a descriptor
\* without hash routine
make_key_ref_hasher_panics == ~key_vtable.hash

\* make_eq: (key_shape.vtable.partial_eq)().unwrap() on a descriptor without
\* equality routine
make_eq_panics == ~key_vtable.partial_eq

\* make_hash
make_hash(keyval) == make_key_ref_hasher(keyval)

make_table_entry_hasher_of_cell(e, h) == make_key_ref_hasher(e.key)

\* make_table_entry_hasher: rehash of a resident entry through its key cell
make_table_entry_hasher(e, h) == make_key_ref_hasher(ReadWord(cells[e.key].word, K, h))

make_eq_hash_only(keyval, e, h) == TRUE

make_eq_never(keyval, e, h) == FALSE

\* make_eq: the descriptor's equality of the probe key and an entry's key cell
make_eq(keyval, e, h) == keyval = ReadWord(cells[e.key].word, K, h)

\* HashTable::find / HashTable::entry: the resident entries in the probe
\* sequence of hash that satisfy the equality predicate
Find(hash, keyval, h) ==
    {e \in hash_table : e.hash = hash /\ make_eq(keyval, e, h)}

ErasedGet_key_cell(keyval) ==
    LET hash == make_hash(keyval)
        found == Find(hash, keyval, heap)
    IN IF found = {} THEN None ELSE Some((CHOOSE e \in found : TRUE).key)

\* ErasedHashMap::get: the resident value cell of the entry found
ErasedGet(keyval) ==
    LET hash == make_hash(keyval)
        found == Find(hash, keyval, heap)
    IN IF found = {} THEN None ELSE Some((CHOOSE e \in found : TRUE).value)

\* FacetHashMap::get
FacadeGet(keyval) ==
    LET r == ErasedGet(keyval) IN
    IF r = None THEN None ELSE Some(ReadWord(cells[r[1]].word, V, heap))

\* the bookkeeping of one Erased: the union word, the branch Erased::uninit
\* took, the branches later accesses took, the payload it was created from,
\* the payload into_typed read out of it, who owns it, and the destructor and
\* deallocation calls the engine made on it
NewCell(role, u, given, owner) ==
    [role |-> role, word |-> u.word, branch |-> u.branch,
     access |-> {UninitAsPtr(IF role = "key" THEN K ELSE V)},
     given |-> given, taken |-> NoData,
     owner |-> owner, events |-> <<>>]

\* the outcomes of std::alloc::alloc in Erased::uninit: a block, or the null
\* pointer when the allocator fails (a zero-size request has no defined
\* outcome: the allocator may hand back a block or nothing)
NullOutcomes(shape) ==
    IF ForShape(shape) = "Boxed" THEN BOOLEAN ELSE {FALSE}

\* the descriptors and the facade of a map whose key type has a hash and an
\* equality routine
InitMap ==
    /\ K \in Shape
    /\ V \in Shape
    /\ hash_builder \in BOOLEAN
    /\ heap = <<>>
    /\ cells = <<>>
    /\ hash_table = {}
    /\ phase = "live"
    /\ last = [k \in KeyValues(K) |-> None]
    /\ res = [op |-> "none", key |-> 0, val |-> 0, ret |-> None, ref |-> 0,
              prev |-> None, occ |-> 0]
    /\ ops = 0

\* FacetHashMap of facet_hashmap.rs, K with hash and equality routines
Init ==
    /\ InitMap
    /\ key_vtable = [hash |-> TRUE, partial_eq |-> TRUE]
    /\ facade = "facet_hashmap"

OccupiedReplace_key_too(e, kid, vid) == [e EXCEPT !.value = vid, !.key = kid]

\* ErasedHashMap::insert, Occupied branch: the entry after mem::replace of
\* its value
OccupiedReplace(e, kid, vid) == [e EXCEPT !.value = vid]

\* FacetHashMap::insert with ErasedHashMap::insert
Insert(k, v, kNull, vNull) ==
    /\ phase = "live"
    /\ ops < MaxOps
    /\ LET ku0 == Uninit(K, heap, kNull)
           ku == ErasedNew(K, k, heap, kNull)
           vu0 == Uninit(V, ku.heap, vNull)
           vu == ErasedNew(V, v, ku.heap, vNull)
           h2 == vu.heap
           kid == Len(cells) + 1
           vid == Len(cells) + 2
           keyval == ReadWord(ku.word, K, h2)
           hash == make_hash(keyval)
           found == Find(hash, keyval, h2)
       IN IF PutFaults(ku0, K)
          THEN /\ heap' = ku0.heap
               /\ cells' = Append(cells, NewCell("key", ku0, NoData, "none"))
               /\ phase' = "crashed"
               /\ UNCHANGED <<hash_table, res, last, ops>>
          ELSE IF PutFaults(vu0, V)
          THEN /\ heap' = vu0.heap
               /\ cells' = cells \o <<NewCell("key", ku, k, "none"),
                                      NewCell("value", vu0, NoData, "none")>>
               /\ phase' = "crashed"
               /\ UNCHANGED <<hash_table, res, last, ops>>
          ELSE IF make_key_ref_hasher_panics \/ make_eq_panics
          THEN /\ heap' = h2
               /\ cells' = cells \o <<NewCell("key", ku, k, "none"),
                                      NewCell("value", vu, v, "none")>>
               /\ res' = [op |-> "panic", key |-> k, val |-> v, ret |-> None, ref |-> 0,
                          prev |-> last[k], occ |-> Cardinality(hash_table)]
               /\ ops' = ops + 1
               /\ UNCHANGED <<hash_table, last, phase>>
          ELSE /\ heap' = h2
               /\ IF found # {}
                  THEN LET e == CHOOSE x \in found : TRUE
                           old == e.value
                       IN /\ hash_table' = (hash_table \ {e}) \cup {OccupiedReplace(e, kid, vid)}
                          /\ cells' = [[cells EXCEPT ![old].owner = "caller",
                                                     ![old].taken = IntoTyped(cells[old].word, V, h2),
                                                     ![old].access = @ \cup {AsConstPtrAssumeInit(V)},
                                                     ![e.key].access = @ \cup {AsConstPtrAssumeInit(K)}]
                                          \o <<NewCell("key", ku, k, "none"), NewCell("value", vu, v, "table")>>
                                       EXCEPT ![kid].access = @ \cup {AsConstPtrAssumeInit(K)}]
                          /\ res' = [op |-> "insert", key |-> k, val |-> v,
                                     ret |-> Some(IntoTyped(cells[old].word, V, h2)), ref |-> old,
                                     prev |-> last[k], occ |-> Cardinality(hash_table)]
                  ELSE /\ hash_table' = {[x EXCEPT !.hash = make_table_entry_hasher(x, h2)] : x \in hash_table}
                                           \cup {[hash |-> hash, key |-> kid, value |-> vid]}
                       /\ cells' = [cells \o <<NewCell("key", ku, k, "table"), NewCell("value", vu, v, "table")>>
                                       EXCEPT ![kid].access = @ \cup {AsConstPtrAssumeInit(K)}]
                       /\ res' = [op |-> "insert", key |-> k, val |-> v, ret |-> None, ref |-> 0,
                                  prev |-> last[k], occ |-> Cardinality(hash_table)]
               /\ last' = [last EXCEPT ![k] = Some(v)]
               /\ ops' = ops + 1
               /\ UNCHANGED phase
    /\ UNCHANGED <<K, V, key_vtable, facade, hash_builder>>

\* FacetHashMap::get
Get(k) ==
    /\ phase = "live"
    /\ facade = "facet_hashmap"
    /\ IF make_key_ref_hasher_panics \/ make_eq_panics
       THEN res' = [op |-> "panic", key |-> k, val |-> 0, ret |-> None, ref |-> 0,
                    prev |-> last[k], occ |-> Cardinality(hash_table)]
       ELSE LET r == ErasedGet(k) IN
            res' = [op |-> "get", key |-> k, val |-> 0, ret |-> FacadeGet(k),
                    ref |-> IF r = None THEN 0 ELSE r[1],
                    prev |-> last[k], occ |-> Cardinality(hash_table)]
    /\ UNCHANGED <<K, V, key_vtable, facade, hash_builder, heap, cells, hash_table, phase, last, ops>>

\* the caller drops a value that insert handed back to it
CallerDrop(c) ==
    /\ cells[c].owner = "caller"
    /\ cells' = [cells EXCEPT ![c].owner = "dropped"]
    /\ UNCHANGED <<K, V, key_vtable, facade, hash_builder, heap, hash_table, phase, last, res, ops>>

\* hash_table.iter_mut(): the key cells of the resident entries
ResidentKeys == {e.key : e \in hash_table}

ResidentValues_every_value == {i \in DOMAIN cells : cells[i].role = "value"}

\* hash_table.iter_mut(): the value cells of the resident entries
ResidentValues == {e.value : e \in hash_table}

PassNeeded_both(drop_key, drop_value) == drop_key /\ drop_value

\* drop_keys_and_values: is the pass over the entries made at all
PassNeeded(drop_key, drop_value) == drop_key \/ drop_value


\* ErasedHashMap::drop_keys_and_values
drop_keys_and_values ==
    LET drop_key == DropFnIsSome(K)
        drop_value == DropFnIsSome(V)
        dropped(i) == \/ drop_key /\ i \in ResidentKeys
                      \/ drop_value /\ i \in ResidentValues
        shapeOf(i) == IF cells[i].role = "key" THEN K ELSE V
        freeing(a) == {i \in DOMAIN cells :
                          dropped(i) /\ DropFnFrees(cells[i], shapeOf(i), a)}
        frees(a) == Cardinality(freeing(a))
        layout(a) == DropFnLayout(shapeOf(CHOOSE i \in freeing(a) : TRUE))
    IN IF PassNeeded(drop_key, drop_value)
       THEN /\ cells' = [i \in DOMAIN cells |->
                           IF dropped(i) THEN DropFnCell(cells[i], shapeOf(i)) ELSE cells[i]]
            /\ heap' = [a \in DOMAIN heap |->
                           IF frees(a) > 0
                           THEN [heap[a] EXCEPT !.frees = @ + frees(a),
                                                !.freeSize = layout(a).size,
                                                !.freeAlign = layout(a).align]
                           ELSE heap[a]]
       ELSE UNCHANGED <<cells, heap>>

\* impl Drop for FacetHashMap: the body of drop()
FacadeDrop ==
    /\ phase = "live"
    /\ facade = "facet_hashmap"
    /\ drop_keys_and_values
    /\ phase' = "dropped"
    /\ UNCHANGED <<K, V, key_vtable, facade, hash_builder, hash_table, last, res, ops>>

\* the drop glue that follows drop(): the hash_map field, and with it the raw
\* table's storage, is released; HashTableEntry has no destructor of its own
ReleaseTable ==
    /\ phase = "dropped"
    /\ phase' = "released"
    /\ UNCHANGED <<K, V, key_vtable, facade, hash_builder, heap, cells, hash_table, last, res, ops>>

Next ==
    \/ \E k \in KeyValues(K), v \in ValValues(V), kNull \in NullOutcomes(K), vNull \in NullOutcomes(V) :
          Insert(k, v, kNull, vNull)
    \/ \E k \in KeyValues(K) : Get(k)
    \/ \E c \in DOMAIN cells : CallerDrop(c)
    \/ FacadeDrop
    \/ ReleaseTable

Spec == Init /\ [][Next]_vars

\* the same facade over every key descriptor: with or without hash routine,
\* with or without equality routine
InitVtable ==
    /\ InitMap
    /\ key_vtable \in [hash : BOOLEAN, partial_eq : BOOLEAN]
    /\ facade = "facet_hashmap"

SpecVtable == InitVtable /\ [][Next]_vars

\* FacetHashMap of lib.rs: insert only, no Drop impl
InitLib ==
    /\ InitMap
    /\ key_vtable = [hash |-> TRUE, partial_eq |-> TRUE]
    /\ facade = "lib"

\* the lib.rs map goes out of scope: there is no drop() body, the drop glue
\* releases the raw table's storage at once
LibRelease ==
    /\ phase = "live"
    /\ facade = "lib"
    /\ phase' = "released"
    /\ UNCHANGED <<K, V, key_vtable, facade, hash_builder, heap, cells, hash_table, last, res, ops>>

NextLib ==
    \/ \E k \in KeyValues(K), v \in ValValues(V), kNull \in NullOutcomes(K), vNull \in NullOutcomes(V) :
          Insert(k, v, kNull, vNull)
    \/ \E c \in DOMAIN cells : CallerDrop(c)
    \/ LibRelease

SpecLib == InitLib /\ [][NextLib]_vars

TypeOK ==
    /\ K \in Shape /\ V \in Shape
    /\ phase \in {"live", "dropped", "released", "crashed"}
    /\ ops \in 0..MaxOps

\* ------------------------------------------------------------- properties

\* the key payload an entry's key cell holds
KeyOf(e) == ReadWord(cells[e.key].word, K, heap)

\* C1: get(k) returns the value of the most recent insert of k, and an
\* insert of a resident key returns the value it displaces, after which
\* get(k) returns the new one.
C1_MapSemantics ==
    /\ phase = "live" => \A k \in KeyValues(K) : FacadeGet(k) = last[k]
    /\ res.op \in {"insert", "get"} => res.ret = res.prev
    /\ res.op = "insert" /\ phase = "live" => FacadeGet(res.key) = Some(res.val)

C1_Witness ==
    /\ res.op = "insert" /\ phase = "live"
    /\ res.ret # None /\ res.ret # Some(res.val)
    /\ FacadeGet(res.key) = Some(res.val)

\* C2: get(k) returns None for every key that no insert so far was given,
\* on the empty map too.
C2_Absence ==
    phase = "live" => \A k \in KeyValues(K) : last[k] = None => FacadeGet(k) = None

C2_Witness ==
    /\ res.op = "get" /\ res.ret = None /\ phase = "live"
    /\ \E e \in hash_table : make_hash(KeyOf(e)) = make_hash(res.key)

\* the descriptor the facade uses with a cell
ShapeOf(c) == IF c.role = "key" THEN K ELSE V

\* destructor calls the engine made on a cell
DropCount(c) == Cardinality({j \in DOMAIN c.events : c.events[j] = "drop_in_place"})

\* deallocation calls the engine made on a cell
DeallocCount(c) == Cardinality({j \in DOMAIN c.events : c.events[j] = "dealloc"})

\* destructor calls the engine made on all cells of a role
RoleDrops(role) ==
    Cardinality({p \in (DOMAIN cells) \X (1..2) :
                    /\ cells[p[1]].role = role
                    /\ p[2] \in DOMAIN cells[p[1]].events
                    /\ cells[p[1]].events[p[2]] = "drop_in_place"})

\* C3: the occupancy is the number of distinct keys inserted; an insert of
\* a resident key keeps it and returns Some, an insert of another key raises
\* it by one and returns None; no two resident entries have equal keys.
C3_Occupancy ==
    /\ Cardinality(hash_table) = Cardinality({k \in KeyValues(K) : last[k] # None})
    /\ phase = "live" => \A e1, e2 \in hash_table : KeyOf(e1) = KeyOf(e2) => e1 = e2
    /\ res.op = "insert" =>
          IF res.prev # None
          THEN Cardinality(hash_table) = res.occ /\ res.ret # None
          ELSE Cardinality(hash_table) = res.occ + 1 /\ res.ret = None

C3_Witness ==
    /\ res.op = "insert" /\ res.prev # None /\ Cardinality(hash_table) = 1
    /\ ops = 2

\* C4: destroying a map with M resident entries runs the key destructor
\* once on each resident key cell and the value destructor once on each
\* resident value cell, M calls per type, and none before the map is
\* destroyed.
C4_Cleanup ==
    /\ phase = "live" => \A i \in DOMAIN cells : DropCount(cells[i]) = 0
    /\ phase \in {"dropped", "released"} =>
          /\ \A e \in hash_table :
                /\ K.drop => DropCount(cells[e.key]) = 1
                /\ V.drop => DropCount(cells[e.value]) = 1
          /\ RoleDrops("key") = IF K.drop THEN Cardinality(hash_table) ELSE 0
          /\ RoleDrops("value") = IF V.drop THEN Cardinality(hash_table) ELSE 0

C4_Witness ==
    /\ phase = "dropped" /\ K.drop /\ V.drop
    /\ Cardinality(hash_table) = 2
    /\ RoleDrops("key") = 2 /\ RoleDrops("value") = 2

\* C5: a value displaced by insert is moved out of the table to the caller
\* still initialized; the engine runs no destructor on it, neither at the
\* insert nor in the later destruction pass.
C5_Displaced ==
    /\ \A i \in DOMAIN cells :
          cells[i].owner \in {"caller", "dropped"} =>
             /\ cells[i].role = "value"
             /\ DropCount(cells[i]) = 0
             /\ \A e \in hash_table : e.value # i
             /\ cells[i].taken \in ValValues(V)
    /\ res.op = "insert" /\ res.ret # None =>
          /\ cells[res.ref].owner \in {"caller", "dropped"}
          /\ res.ret = Some(cells[res.ref].taken)

C5_Witness ==
    /\ phase = "released" /\ V.drop
    /\ \E i \in DOMAIN cells : cells[i].owner = "caller" /\ DropCount(cells[i]) = 0

\* a cell still holds something to destroy: a payload whose destructor has
\* not run, or a heap block that has not been released (none in a process
\* that has crashed)
Live(c) ==
    /\ phase # "crashed"
    /\ \/ ShapeOf(c).drop /\ c.owner # "dropped" /\ DropCount(c) = 0
       \/ c.branch = "Boxed" /\ heap[c.word.v].frees = 0

\* C6: no cell is used after its destructor ran, no destructor or
\* deallocation runs twice, and every live cell has exactly one owner, the
\* table or the caller.
C6_SingleOwner ==
    /\ \A i \in DOMAIN cells :
          /\ DropCount(cells[i]) <= 1
          /\ DeallocCount(cells[i]) <= 1
          /\ cells[i].owner = "dropped" => DropCount(cells[i]) = 0
          /\ cells[i].events # <<>> => phase \in {"dropped", "released"} /\ cells[i].taken = NoData
    /\ \A a \in DOMAIN heap : heap[a].frees <= 1
    /\ \A i \in DOMAIN cells :
          Live(cells[i]) =>
             /\ cells[i].owner \in {"table", "caller"}
             /\ cells[i].owner = "table" <=> i \in ResidentKeys \cup ResidentValues

\* a resident cell has been destroyed: its destructor, when the descriptor
\* has one, has run and its heap block, when it has one, is released
Destroyed(c) ==
    /\ ShapeOf(c).drop => DropCount(c) = 1
    /\ c.branch = "Boxed" => heap[c.word.v].frees = 1

\* C7: when the raw table's storage is released, the destruction pass over
\* every resident key and value cell has completed.
C7_PassBeforeRelease ==
    phase = "released" =>
       \A e \in hash_table : Destroyed(cells[e.key]) /\ Destroyed(cells[e.value])

C7_Witness ==
    /\ phase = "released" /\ Cardinality(hash_table) = 2
    /\ K.drop /\ ~V.drop /\ ForShape(V) = "Inline"

\* does a layout fit the inline word
Fits(s) == s.size <= WordSize /\ s.align <= WordAlign

\* C8: uninit allocates nothing for a layout that fits the machine word
\* and makes exactly one allocation of the descriptor's size and alignment
\* otherwise; every later access to the cell takes the branch uninit took.
C8_Layout ==
    /\ \A i \in DOMAIN cells :
          LET c == cells[i]
              s == ShapeOf(c)
          IN /\ Fits(s) => c.branch = "Inline" /\ c.word.tag # "ptr"
             /\ ~Fits(s) =>
                   /\ c.branch = "Boxed" /\ c.word.tag = "ptr"
                   /\ c.word.v \in DOMAIN heap
                   /\ heap[c.word.v].size = s.size
                   /\ heap[c.word.v].align = s.align
             /\ c.access \subseteq {c.branch}
    /\ Len(heap) = Cardinality({i \in DOMAIN cells : ~Fits(ShapeOf(cells[i]))})
    /\ \A i, j \in DOMAIN cells :
          cells[i].word.tag = "ptr" /\ cells[j].word.tag = "ptr" /\ i # j
             => cells[i].word.v # cells[j].word.v

C8_Witness ==
    /\ phase = "released"
    /\ Fits(K) /\ V.size <= WordSize /\ V.align > WordAlign
    /\ Len(heap) = 2
    /\ \E i \in DOMAIN cells : cells[i].owner = "caller" /\ cells[i].access = {"Boxed"}
    /\ \E i \in DOMAIN cells : cells[i].role = "key" /\ cells[i].access = {"Inline"}

\* the calls the drop routine makes on a cell of a storage and destructor
ExpectedEvents(branch, drop) ==
    (IF drop THEN <<"drop_in_place">> ELSE <<>>)
       \o (IF branch = "Boxed" THEN <<"dealloc">> ELSE <<>>)

\* C9: the drop routine calls the destructor once iff the descriptor has
\* one, then releases the heap block once iff the cell is heap-resident,
\* with the layout it was allocated with, and does nothing only for an
\* inline cell without destructor.
C9_DropFn ==
    \A i \in DOMAIN cells :
       LET c == cells[i]
           s == ShapeOf(c)
           resident == i \in ResidentKeys \cup ResidentValues
       IN /\ c.events \in {<<>>, ExpectedEvents(c.branch, s.drop)}
          /\ phase \in {"dropped", "released"} /\ resident => c.events = ExpectedEvents(c.branch, s.drop)
          /\ c.branch = "Boxed" =>
                LET b == heap[c.word.v] IN
                IF c.events = <<>>
                THEN b.frees = 0
                ELSE b.frees = 1 /\ b.freeSize = b.size /\ b.freeAlign = b.align

C9_Witness ==
    /\ phase = "dropped"
    /\ \E e \in hash_table :
          /\ cells[e.key].events = <<"drop_in_place", "dealloc">>
          /\ cells[e.value].events = <<"dealloc">>
          /\ heap[cells[e.value].word.v].frees = 1

\* C10: a value put into a cell by Erased::new and taken out by into_typed
\* is the value given, in the inline and in the heap layout, and no
\* destructor runs on it on the way.
C10_RoundTrip ==
    \A i \in DOMAIN cells :
       cells[i].taken # NoData =>
          /\ cells[i].taken = cells[i].given
          /\ DropCount(cells[i]) = 0

C10_Witness ==
    /\ \E i \in DOMAIN cells : cells[i].taken = 1 /\ cells[i].branch = "Boxed"
    /\ res.op = "insert" /\ res.ret = Some(1)

\* C11: an allocation failure in Erased::uninit is fatal there: uninit
\* never returns a cell whose heap pointer is the allocator's null result,
\* so nothing is written through, read from or stored under one (failure of
\* a request the allocator's contract covers, of size 1 or more).
C11_AllocFailureFatal ==
    /\ \A i \in DOMAIN cells :
          cells[i].word.tag = "ptr" /\ heap[cells[i].word.v].size >= 1
             => ~heap[cells[i].word.v].null
    /\ phase # "crashed"

\* C12: insert and get never fail at run time, whatever hash and equality
\* routines the key descriptor has: every call returns an Option.
C12_NeverFails == res.op # "panic"

\* C13: get changes nothing: the entries, the cells, the heap and the
\* destructor and allocation calls made are as before it, and the reference
\* it returns is the table's own resident value cell of that key.
C13_GetReadOnly ==
    [][(res' # res /\ res'.op = "get") =>
          /\ UNCHANGED <<heap, cells, hash_table, last, phase>>
          /\ res'.ret # None =>
                /\ \E e \in hash_table : e.value = res'.ref /\ KeyOf(e) = res'.key
                /\ cells[res'.ref].role = "value"
                /\ cells[res'.ref].owner = "table"
                /\ res'.ret = Some(cells[res'.ref].given)
          /\ res'.ret = None => res'.ref = 0]_vars

C13_Witness ==
    /\ res.op = "get" /\ res.ret = Some(1) /\ phase = "live"
    /\ cells[res.ref].branch = "Boxed"
    /\ Cardinality(hash_table) = 2

\* C14: every facade of the repository, the one of lib.rs included, has
\* destroyed each resident key and value cell when the container is gone.
C14_PassInEveryFacade ==
    phase = "released" =>
       \A i \in ResidentKeys \cup ResidentValues : ~Live(cells[i])

\* C15: after the map is destroyed every key cell insert received has been
\* destroyed once, also the key cell of an insert of a resident key.
C15_NoKeyLeak ==
    phase = "released" =>
       \A i \in DOMAIN cells : cells[i].role = "key" => Destroyed(cells[i])

\* C16: every heap block Erased::uninit allocated is released once by the
\* time the map is destroyed and the caller has dropped the values handed to
\* it; into_typed releases the block of the cell it empties.
C16_NoAllocationLeak ==
    /\ \A i \in DOMAIN cells :
          cells[i].taken # NoData /\ cells[i].branch = "Boxed"
             => heap[cells[i].word.v].frees = 1
    /\ (phase = "released" /\ \A i \in DOMAIN cells : cells[i].owner # "caller")
          => \A a \in DOMAIN heap : heap[a].frees = 1

C18_NoZeroSizeAllocation ==
    \A a \in DOMAIN heap : heap[a].size >= 1

====
